---- MODULE Spec2Model ----
(***************************************************************************)
(* Model of the rsw command layer (src/core/cli.rs): the build dispatch    *)
(* pass Cli::wp_build, its callers Cli::rsw_build / Cli::rsw_watch, the    *)
(* crate listing written by Cli::parse_toml and the notification hook the  *)
(* watch command installs.  Build, Watch and Link live in other files of   *)
(* the crate; they are modelled at their call interface.                   *)
(*                                                                         *)
(* Strings that matter (paths, crate names) are sequences of one-character *)
(* strings, so that joining and cleaning a path are computed, not assumed. *)
(***************************************************************************)
EXTENDS Integers, Sequences, FiniteSets, TLC

\* ------------------------------------------------------------------ bounds
\* Largest number of [[crates]] entries of a configuration.
MaxCrates == 2
\* Largest number of change events delivered for one watched crate.
MaxEvents == 3

VARIABLES
    config,      \* RswConfig read by parse_toml: [cli, crates]
    command,     \* Commands variant chosen on the command line
    pc,          \* position of the process
    rsw_type,    \* wp_build parameter
    is_link,     \* wp_build parameter, handed on to Build::new
    idx,         \* position of `for i in &config.crates` (1-based)
    crates_map,  \* wp_build local: HashMap name -> path (the link registry)
    has_crates,  \* wp_build local
    is_exit,     \* wp_build local
    rsw_crates,  \* lines handed to init_rsw_crates by parse_toml
    log,         \* external effects so far, in order
    exit_code,   \* process exit status, -1 while running
    wstate,      \* per crate: state of its change monitor / rebuild flow
    pending,     \* per crate: <<path>> of the latest change no rebuild has taken up
    running,     \* per crate: the changed paths of the rebuilds now running
    events,      \* per crate: change events delivered so far
    bursts,      \* per crate: bursts of changes so far (history)
    rebuilds,    \* per crate: rebuilds started so far (history)
    info_file    \* content last written by the notification hook

vars == <<config, command, pc, rsw_type, is_link, idx, crates_map, has_crates,
          is_exit, rsw_crates, log, exit_code, wstate, pending, running,
          events, bursts, rebuilds, info_file>>

dispatchVars == <<rsw_type, is_link, idx, crates_map, has_crates, is_exit,
                  rsw_crates, log, exit_code>>
watchVars == <<wstate, pending, running, events, bursts, rebuilds, info_file>>

\* ------------------------------------------------------------------- paths
Last(s) == s[Len(s)]
Front(s) == SubSeq(s, 1, Len(s) - 1)

\* Path::is_absolute on unix: the path has a root.
IsAbsolute(p) == Len(p) > 0 /\ p[1] = "/"

\* PathBuf::join: an absolute argument replaces the base; otherwise a
\* separator is added unless the base is empty or already ends with one.
Join(base, p) ==
    IF IsAbsolute(p) THEN p
    ELSE IF Len(base) > 0 /\ Last(base) # "/" THEN base \o <<"/">> \o p
    ELSE base \o p

\* The components of a path: maximal runs without "/", empty runs dropped.
RECURSIVE SplitFrom(_, _, _)
SplitFrom(p, k, cur) ==
    IF k > Len(p) THEN (IF cur = <<>> THEN <<>> ELSE <<cur>>)
    ELSE IF p[k] = "/"
         THEN (IF cur = <<>> THEN <<>> ELSE <<cur>>) \o SplitFrom(p, k + 1, <<>>)
         ELSE SplitFrom(p, k + 1, Append(cur, p[k]))
Components(p) == SplitFrom(p, 1, <<>>)

\* One pass of path_clean over the components: "." dropped, ".." removes the
\* component before it (dropped at the root, kept at the front of a relative path).
RECURSIVE CleanFrom(_, _, _, _)
CleanFrom(cs, k, rooted, out) ==
    IF k > Len(cs) THEN out
    ELSE IF cs[k] = <<".">> THEN CleanFrom(cs, k + 1, rooted, out)
    ELSE IF cs[k] = <<".", ".">>
         THEN IF Len(out) > 0 /\ Last(out) # <<".", ".">>
              THEN CleanFrom(cs, k + 1, rooted, Front(out))
              ELSE IF rooted THEN CleanFrom(cs, k + 1, rooted, out)
              ELSE CleanFrom(cs, k + 1, rooted, Append(out, cs[k]))
    ELSE CleanFrom(cs, k + 1, rooted, Append(out, cs[k]))

RECURSIVE JoinComponents(_)
JoinComponents(cs) ==
    IF cs = <<>> THEN <<>>
    ELSE IF Len(cs) = 1 THEN cs[1]
    ELSE cs[1] \o <<"/">> \o JoinComponents(Tail(cs))

\* PathClean::clean: the lexically normalized path ("." for an empty result).
Clean(p) ==
    LET rooted == IsAbsolute(p)
        body == JoinComponents(CleanFrom(Components(p), 1, rooted, <<>>))
    IN IF rooted THEN <<"/">> \o body
       ELSE IF body = <<>> THEN <<".">> ELSE body

\* ----------------------------------------------------------- configuration
\* Package managers a configuration may name in `cli`.
CliSet == {"npm", "yarn", "pnpm"}
\* Values of a crate's `root` and `out_dir`.
Roots == { <<"r">>, <<".", "/", "r">> }
OutDirs == { <<"p">> }

\* Crate names are unique within a configuration: the k-th crate is "a" * k.
NameOf(k) == [j \in 1..k |-> "a"]

CrateOpts == [root : Roots, out_dir : OutDirs, build : [run : BOOLEAN],
              watch : [run : BOOLEAN], link : BOOLEAN]

CrateSeqs(n) ==
    { [k \in 1..n |-> [name |-> NameOf(k), root |-> f[k].root,
                       out_dir |-> f[k].out_dir, build |-> f[k].build,
                       watch |-> f[k].watch, link |-> f[k].link]] :
      f \in [1..n -> CrateOpts] }

Configs == { [cli |-> c, crates |-> cs] :
             c \in CliSet, cs \in UNION { CrateSeqs(n) : n \in 0..MaxCrates } }

NCrates == Len(config.crates)
CrateIdx == 1..NCrates

\* ------------------------------------------------------------ log entries
NoPaths == <<>>
BuildEv(c, ok) == [ev |-> "build", crate |-> c, ok |-> ok, paths |-> NoPaths]
LinkEv(ps) == [ev |-> "link", crate |-> 0, ok |-> TRUE, paths |-> ps]
ReportEv == [ev |-> "report", crate |-> 0, ok |-> TRUE, paths |-> NoPaths]

\* --------------------------------------------------------------- parse_toml
\* format!("{} :~> {}", name, crate_out.clean())
FormatLine(name, path) == name \o <<" ", ":", "~", ">", " ">> \o path

\* The cleaned output path parse_toml lists for a crate.
ParsedOut(i) == Clean(Join(Join(i.root, i.name), i.out_dir))

\* The lines parse_toml hands to init_rsw_crates, one per crate, in order.
ParseToml(cfg) ==
    [k \in 1..Len(cfg.crates) |->
        FormatLine(cfg.crates[k].name, ParsedOut(cfg.crates[k]))]

\* ----------------------------------------------------------------- wp_build
\* Mutation of Actionable: the mode is not looked at.
ActionableAnyMode(i, t) == i.build.run \/ i.watch.run

\* run_build || run_watch
Actionable(i, t) ==
    LET run_build == t = "build" /\ i.build.run
        run_watch == t = "watch" /\ i.watch.run
    IN run_build \/ run_watch

\* Mutation of LinkWanted: the package manager is not looked at.
LinkWantedAnyCli(cli, i) == i.link

\* cli == "npm" && i.link.unwrap()
LinkWanted(cli, i) == cli = "npm" /\ i.link

\* The path wp_build registers for a linked crate.
CratePath(i) == Join(Join(i.root, i.name), i.out_dir)

\* Mutation of Insert: the map is created anew for every crate.
InsertFresh(map, k, v) == [n \in {k} |-> v]

\* HashMap::insert
Insert(map, k, v) ==
    [n \in DOMAIN map \cup {k} |-> IF n = k THEN v ELSE map[n]]

EmptyMap == [n \in {} |-> <<>>]

\* Mutation of ShouldLink: has_crates is not looked at.
ShouldLinkAlways == config.cli = "npm"

\* if cli == "npm" && has_crates
ShouldLink == config.cli = "npm" /\ has_crates

\* The orders in which a HashMap may hand out its entries.
Orders(S) ==
    { s \in [1..Cardinality(S) -> S] : \A a \in S : \E k \in DOMAIN s : s[k] = a }

\* Result of Build::new(..).init(): whether the external build succeeded.
BuildOutcomes == BOOLEAN

\* Watch::new(config, callback).init(): one change monitor per crate whose
\* watch.run is true.
InstallMonitors(cfg) ==
    [c \in 1..Len(cfg.crates) |->
        IF cfg.crates[c].watch.run THEN "idle" ELSE "off"]

\* --------------------------------------------------------------------- Init
Init ==
    /\ config \in Configs
    /\ command \in {"build", "watch"}
    /\ pc = "start"
    /\ rsw_type = ""
    /\ is_link = FALSE
    /\ idx = 0
    /\ crates_map = EmptyMap
    /\ has_crates = FALSE
    /\ is_exit = FALSE
    /\ rsw_crates = <<>>
    /\ log = <<>>
    /\ exit_code = -1
    /\ wstate = [c \in CrateIdx |-> "off"]
    /\ pending = [c \in CrateIdx |-> <<>>]
    /\ running = [c \in CrateIdx |-> <<>>]
    /\ events = [c \in CrateIdx |-> 0]
    /\ bursts = [c \in CrateIdx |-> 0]
    /\ rebuilds = [c \in CrateIdx |-> 0]
    /\ info_file = <<>>

\* ------------------------------------------------------------------ actions
\* Entry of wp_build(config, t, link) after parse_toml has listed the crates.
EnterWpBuild(t, link) ==
    /\ rsw_crates' = ParseToml(config)
    /\ rsw_type' = t
    /\ is_link' = link
    /\ crates_map' = EmptyMap
    /\ has_crates' = FALSE
    /\ is_exit' = TRUE
    /\ idx' = 1
    /\ pc' = "loop"
    /\ UNCHANGED <<config, command, log, exit_code>>
    /\ UNCHANGED watchVars

\* Commands::Build => Cli::rsw_build()
RswBuild ==
    /\ pc = "start"
    /\ command = "build"
    /\ EnterWpBuild("build", FALSE)

\* Commands::Watch => Cli::rsw_watch(callback), up to the entry of wp_build
RswWatch ==
    /\ pc = "start"
    /\ command = "watch"
    /\ EnterWpBuild("watch", TRUE)

\* One iteration of the crate loop up to the call of Build::new(..).init().
WpBuildSelect ==
    /\ pc = "loop"
    /\ idx <= NCrates
    /\ LET i == config.crates[idx]
       IN IF Actionable(i, rsw_type)
          THEN /\ is_exit' = FALSE
               /\ IF LinkWanted(config.cli, i)
                  THEN /\ has_crates' = TRUE
                       /\ crates_map' = Insert(crates_map, i.name, CratePath(i))
                  ELSE UNCHANGED <<has_crates, crates_map>>
               /\ pc' = "build"
               /\ idx' = idx
          ELSE /\ idx' = idx + 1
               /\ UNCHANGED <<is_exit, has_crates, crates_map, pc>>
    /\ UNCHANGED <<config, command, rsw_type, is_link, rsw_crates, log, exit_code>>
    /\ UNCHANGED watchVars

\* Mutation of WpBuildInvoke: a failed build ends the process with status 1.
WpBuildInvokeChecked ==
    /\ pc = "build"
    /\ \E ok \in BuildOutcomes :
          /\ log' = Append(log, BuildEv(idx, ok))
          /\ pc' = IF ok THEN "loop" ELSE "exited"
          /\ exit_code' = IF ok THEN exit_code ELSE 1
    /\ idx' = idx + 1
    /\ UNCHANGED <<config, command, rsw_type, is_link, crates_map, has_crates,
                   is_exit, rsw_crates>>
    /\ UNCHANGED watchVars

\* Build::new(i.clone(), rsw_type, cli, is_link).init(); the result is dropped
\* and the loop goes on with the next crate.
WpBuildInvoke ==
    /\ pc = "build"
    /\ \E ok \in BuildOutcomes : log' = Append(log, BuildEv(idx, ok))
    /\ idx' = idx + 1
    /\ pc' = "loop"
    /\ UNCHANGED <<config, command, rsw_type, is_link, crates_map, has_crates,
                   is_exit, rsw_crates, exit_code>>
    /\ UNCHANGED watchVars

\* Mutation of ExitNoCrates: the condition is reported but the process goes on.
ReportWithoutExit ==
    /\ pc = "loop"
    /\ idx > NCrates
    /\ is_exit
    /\ log' = Append(log, ReportEv)
    /\ pc' = "returned"
    /\ UNCHANGED <<config, command, rsw_type, is_link, idx, crates_map,
                   has_crates, is_exit, rsw_crates, exit_code>>
    /\ UNCHANGED watchVars

\* if is_exit { print(RswInfo::LoadCrate(..)); std::process::exit(1); }
ExitNoCrates ==
    /\ pc = "loop"
    /\ idx > NCrates
    /\ is_exit
    /\ log' = Append(log, ReportEv)
    /\ exit_code' = 1
    /\ pc' = "exited"
    /\ UNCHANGED <<config, command, rsw_type, is_link, idx, crates_map,
                   has_crates, is_exit, rsw_crates>>
    /\ UNCHANGED watchVars

\* Link::npm_link(cli, Vec::from_iter(crates.values())) and return.
NpmLink ==
    /\ pc = "loop"
    /\ idx > NCrates
    /\ ~is_exit
    /\ ShouldLink
    /\ \E order \in Orders(DOMAIN crates_map) :
          log' = Append(log, LinkEv([k \in DOMAIN order |-> crates_map[order[k]]]))
    /\ pc' = "returned"
    /\ UNCHANGED <<config, command, rsw_type, is_link, idx, crates_map,
                   has_crates, is_exit, rsw_crates, exit_code>>
    /\ UNCHANGED watchVars

\* wp_build returns without linking.
NoLink ==
    /\ pc = "loop"
    /\ idx > NCrates
    /\ ~is_exit
    /\ ~ShouldLink
    /\ pc' = "returned"
    /\ UNCHANGED <<config, command, rsw_type, is_link, idx, crates_map,
                   has_crates, is_exit, rsw_crates, log, exit_code>>
    /\ UNCHANGED watchVars

\* rsw_build returns to Cli::new, which returns: the process ends normally.
RswBuildReturn ==
    /\ pc = "returned"
    /\ command = "build"
    /\ pc' = "done"
    /\ exit_code' = 0
    /\ UNCHANGED <<config, command, rsw_type, is_link, idx, crates_map,
                   has_crates, is_exit, rsw_crates, log>>
    /\ UNCHANGED watchVars

\* Mutation of RswWatchInit: the monitors are installed before the pass is run.
RswWatchInitFirst ==
    /\ pc = "loop"
    /\ command = "watch"
    /\ wstate' = InstallMonitors(config)
    /\ pc' = "watching"
    /\ UNCHANGED <<config, command, pending, running, events, bursts, rebuilds,
                   info_file>>
    /\ UNCHANGED dispatchVars

\* rsw_watch after wp_build has returned: Watch::new(config, callback).init()
RswWatchInit ==
    /\ pc = "returned"
    /\ command = "watch"
    /\ wstate' = InstallMonitors(config)
    /\ pc' = "watching"
    /\ UNCHANGED <<config, command, pending, running, events, bursts, rebuilds,
                   info_file>>
    /\ UNCHANGED dispatchVars

\* ------------------------------------------------------------ watch engine
\* Paths a change event may report.
ChangedPaths == { <<"s">>, <<"t">> }

\* Result of rsw_watch_file(..): the status file was written, or the write failed.
WriteResults == {"Ok", "Err"}

\* format!("[RSW::OK]\n[RSW::NAME] :~> {}\n[RSW::PATH] :~> {}", name, path)
InfoContent(name, path) ==
    <<"[RSW::OK]", <<"[RSW::NAME] :~> ", name>>, <<"[RSW::PATH] :~> ", path>>>>

\* The closure Cli::new hands to rsw_watch, called with the crate a and the
\* changed path b: it writes the status file and unwraps the result, so a
\* failed write panics in the caller.
WatchCallback(a, b, w) ==
    IF w = "Ok"
    THEN [panicked |-> FALSE, info |-> InfoContent(a.name, b)]
    ELSE [panicked |-> TRUE, info |-> info_file]

\* A change under the root of crate c is reported by its monitor.  The first
\* change of a quiet crate opens the debounce window; changes inside the
\* window are coalesced; changes during a rebuild are kept as the one pending
\* trigger.  The latest path wins.  A flow that has panicked takes nothing.
ChangeEvent(c) ==
    /\ pc = "watching"
    /\ wstate[c] # "off"
    /\ events[c] < MaxEvents
    /\ events' = [events EXCEPT ![c] = @ + 1]
    /\ \E b \in ChangedPaths :
          IF wstate[c] = "idle"
          THEN /\ wstate' = [wstate EXCEPT ![c] = "debouncing"]
               /\ pending' = [pending EXCEPT ![c] = <<b>>]
               /\ bursts' = [bursts EXCEPT ![c] = @ + 1]
          ELSE IF wstate[c] = "debouncing"
          THEN /\ pending' = [pending EXCEPT ![c] = <<b>>]
               /\ UNCHANGED <<wstate, bursts>>
          ELSE IF wstate[c] = "building"
          THEN /\ pending' = [pending EXCEPT ![c] = <<b>>]
               /\ bursts' = [bursts EXCEPT ![c] = IF pending[c] = <<>> THEN @ + 1 ELSE @]
               /\ UNCHANGED wstate
          ELSE UNCHANGED <<wstate, pending, bursts>>
    /\ UNCHANGED <<config, command, pc, running, rebuilds, info_file>>
    /\ UNCHANGED dispatchVars

\* The debounce window of crate c closes: the rebuild of c starts, for the
\* latest changed path.
DebounceExpire(c) ==
    /\ pc = "watching"
    /\ wstate[c] = "debouncing"
    /\ wstate' = [wstate EXCEPT ![c] = "building"]
    /\ running' = [running EXCEPT ![c] = Append(@, pending[c][1])]
    /\ pending' = [pending EXCEPT ![c] = <<>>]
    /\ rebuilds' = [rebuilds EXCEPT ![c] = @ + 1]
    /\ UNCHANGED <<config, command, pc, events, bursts, info_file>>
    /\ UNCHANGED dispatchVars

\* The rebuild of crate c completes.  After a successful rebuild the hook is
\* called with the crate and the changed path; a panic of the hook unwinds
\* the flow that called it.  Otherwise a pending trigger starts the next
\* rebuild at once, and without one the crate is quiet again.
RebuildDone(c) ==
    /\ pc = "watching"
    /\ wstate[c] = "building"
    /\ \E ok \in BuildOutcomes, w \in WriteResults :
          LET hook == IF ok THEN WatchCallback(config.crates[c], Head(running[c]), w)
                      ELSE [panicked |-> FALSE, info |-> info_file]
          IN /\ info_file' = hook.info
             /\ IF hook.panicked
                THEN /\ wstate' = [wstate EXCEPT ![c] = "panicked"]
                     /\ running' = [running EXCEPT ![c] = Tail(@)]
                     /\ UNCHANGED <<pending, rebuilds>>
                ELSE IF pending[c] # <<>>
                THEN /\ running' = [running EXCEPT ![c] = Append(Tail(@), pending[c][1])]
                     /\ pending' = [pending EXCEPT ![c] = <<>>]
                     /\ rebuilds' = [rebuilds EXCEPT ![c] = @ + 1]
                     /\ UNCHANGED wstate
                ELSE /\ wstate' = [wstate EXCEPT ![c] = "idle"]
                     /\ running' = [running EXCEPT ![c] = Tail(@)]
                     /\ UNCHANGED <<pending, rebuilds>>
    /\ UNCHANGED <<config, command, pc, events, bursts>>
    /\ UNCHANGED dispatchVars

Next ==
    \/ RswBuild
    \/ RswWatch
    \/ WpBuildSelect
    \/ WpBuildInvoke
    \/ ExitNoCrates
    \/ NpmLink
    \/ NoLink
    \/ RswBuildReturn
    \/ RswWatchInit

Spec == Init /\ [][Next]_vars

\* The watch command alone, with its engine serving change events.
WatchConfigs ==
    { cfg \in Configs :
        /\ cfg.cli = "npm"
        /\ \A k \in DOMAIN cfg.crates :
              cfg.crates[k].root = <<"r">> /\ ~cfg.crates[k].build.run }

InitWatch ==
    /\ Init
    /\ command = "watch"
    /\ config \in WatchConfigs

NextWatch ==
    \/ RswWatch
    \/ WpBuildSelect
    \/ WpBuildInvoke
    \/ ExitNoCrates
    \/ NpmLink
    \/ NoLink
    \/ RswWatchInit
    \/ \E c \in CrateIdx : ChangeEvent(c)
    \/ \E c \in CrateIdx : DebounceExpire(c)
    \/ \E c \in CrateIdx : RebuildDone(c)

SpecWatch == InitWatch /\ [][NextWatch]_vars

\* ------------------------------------------------------------- properties
TypeOK ==
    /\ pc \in {"start", "loop", "build", "exited", "returned", "done", "watching"}
    /\ exit_code \in {-1, 0, 1}
    /\ idx \in 0..(NCrates + 1)
    /\ \A c \in CrateIdx : wstate[c] \in {"off", "idle", "debouncing", "building", "panicked"}

\* The crates the requested mode selects, in the words of the specification.
Selected ==
    { c \in CrateIdx :
        IF command = "build" THEN config.crates[c].build.run
        ELSE config.crates[c].watch.run }

\* The selected crates that take part in linking under a linking package manager.
Linked ==
    { c \in Selected : config.crates[c].link /\ config.cli = "npm" }

BuildCalls == { k \in DOMAIN log : log[k].ev = "build" }
LinkCalls == { k \in DOMAIN log : log[k].ev = "link" }
Reports == { k \in DOMAIN log : log[k].ev = "report" }
BuildsOf(c) == Cardinality({ k \in BuildCalls : log[k].crate = c })
Range(f) == { f[x] : x \in DOMAIN f }

\* The dispatch pass is over: wp_build has returned or has ended the process.
PassOver == pc \in {"exited", "returned", "done", "watching"}

\* C1: one dispatch pass invokes the build exactly once for each crate the
\* mode selects (build.run in mode build, watch.run in mode watch, whatever the
\* other flag is) and never for another crate, so K selected crates give
\* exactly K build invocations.
C1_BuildOncePerActionable ==
    /\ \A c \in CrateIdx : BuildsOf(c) <= (IF c \in Selected THEN 1 ELSE 0)
    /\ PassOver =>
          /\ \A c \in CrateIdx : BuildsOf(c) = (IF c \in Selected THEN 1 ELSE 0)
          /\ Cardinality(BuildCalls) = Cardinality(Selected)

C1_Witness ==
    /\ PassOver
    /\ Cardinality(BuildCalls) = 1
    /\ \E c \in Selected, d \in CrateIdx \ Selected :
          /\ config.crates[d].build.run \/ config.crates[d].watch.run
          /\ BuildsOf(c) = 1

\* C2: when the mode selects no crate the pass reports "no crates selected"
\* exactly once, invokes no build and no link, and the process ends with exit
\* status 1; when it selects a crate the condition is never reported.
C2_NoCratesReportedOnce ==
    /\ Cardinality(Reports) <= 1
    /\ Selected # {} => Reports = {}
    /\ (PassOver /\ Selected = {}) =>
          /\ Cardinality(Reports) = 1
          /\ BuildCalls = {}
          /\ LinkCalls = {}
          /\ pc = "exited"
          /\ exit_code = 1
    /\ exit_code = 1 => Selected = {}

C2_Witness ==
    /\ pc = "exited"
    /\ exit_code = 1
    /\ Cardinality(Reports) = 1
    /\ NCrates = 2
    /\ \E c \in CrateIdx : config.crates[c].link

\* C3: after a dispatch pass the registry has an entry for a crate iff the
\* mode selects the crate, the crate has link = true and cli is "npm".
C3_RegistryExactlyLinked ==
    PassOver =>
        /\ \A c \in CrateIdx :
              (config.crates[c].name \in DOMAIN crates_map) <=>
                 (c \in Selected /\ config.crates[c].link /\ config.cli = "npm")
        /\ DOMAIN crates_map \subseteq { config.crates[c].name : c \in CrateIdx }

C3_Witness ==
    /\ PassOver
    /\ \E c, d \in CrateIdx :
          /\ config.crates[c].name \in DOMAIN crates_map
          /\ d \notin Selected
          /\ config.crates[d].link
          /\ config.crates[d].name \notin DOMAIN crates_map

C5_FailureDoesNotAbort ==
    (\E k \in BuildCalls : ~log[k].ok) =>
        /\ exit_code \in {-1, 0}
        /\ pc # "exited"
        /\ PassOver => \A c \in Selected : BuildsOf(c) = 1
        /\ pc = "done" => exit_code = 0

C5_Witness ==
    /\ pc = "done"
    /\ exit_code = 0
    /\ Len(log) >= 2
    /\ log[1] = BuildEv(1, FALSE)
    /\ log[2].ev = "build" /\ log[2].crate = 2

\* C6: in watch mode the whole initial pass (every crate with watch.run built,
\* the link step done) is over before any monitor is installed; with no crate
\* to watch the process exits with status 1 and installs no monitor.
C6_InitialPassBeforeMonitors ==
    /\ (pc = "watching" \/ \E c \in CrateIdx : wstate[c] # "off") =>
          /\ command = "watch"
          /\ pc = "watching"
          /\ \A c \in CrateIdx : config.crates[c].watch.run => BuildsOf(c) = 1
          /\ Linked # {} => Cardinality(LinkCalls) = 1
    /\ (command = "watch" /\ PassOver
          /\ \A c \in CrateIdx : ~config.crates[c].watch.run) =>
          /\ pc = "exited"
          /\ exit_code = 1
          /\ \A c \in CrateIdx : wstate[c] = "off"

C6_Witness ==
    /\ pc = "watching"
    /\ \E c \in CrateIdx : wstate[c] = "idle"
    /\ \E c \in CrateIdx : wstate[c] = "off"
    /\ LinkCalls # {}

C8_RegisteredPathNormalized ==
    \A c \in CrateIdx :
        config.crates[c].name \in DOMAIN crates_map =>
            /\ crates_map[config.crates[c].name] = Clean(crates_map[config.crates[c].name])
            /\ FormatLine(config.crates[c].name, crates_map[config.crates[c].name])
                  = rsw_crates[c]

C10_RegisteredBeforeBuild ==
    /\ has_crates <=> DOMAIN crates_map # {}
    /\ \A c \in Linked :
          (pc = "build" /\ idx = c) \/ BuildsOf(c) > 0 =>
              /\ config.crates[c].name \in DOMAIN crates_map
              /\ crates_map[config.crates[c].name] = CratePath(config.crates[c])
    /\ \A k \in LinkCalls : \A c \in Linked :
          CratePath(config.crates[c]) \in Range(log[k].paths)

C10_Witness ==
    /\ LinkCalls # {}
    /\ Cardinality(Linked) = 2
    /\ \E k \in BuildCalls : ~log[k].ok /\ log[k].crate = 1

====
